---- MODULE Spec2Model ----
(***************************************************************************)
(* State-machine model of main.py: the command-line dispatcher of the      *)
(* shell (argument parsing, identifier validation, construction of the     *)
(* collaborator, the command registry, the single-command mode, the        *)
(* interactive loop, the SIGINT handler and print_full_data).              *)
(*                                                                         *)
(* Strings that the code inspects character by character (the identifier,  *)
(* the command option, the typed line) are sequences of one-character      *)
(* strings, so that str.strip() and str.isalnum() are computed.            *)
(***************************************************************************)
EXTENDS Integers, Sequences, FiniteSets, TLC

VARIABLES
    pc,            \* position of main(): start, parse, validate, construct,
                   \* dispatch, running_once, prompt, running, done
    args,          \* the parsed argparse namespace (id, file, json, command)
    OsintgramCallable, \* whether the name bound by "import Osintgram" is callable
    handlerInstalled,  \* signal.signal(SIGINT, signal_handler) has run
    apiBuilt,      \* the collaborator object has been constructed
    writeFile,     \* the collaborator's write-to-file flag
    jsonDump,      \* the collaborator's JSON-export flag
    line,          \* the raw line returned by the last input()
    cmd,           \* the stripped text of that line
    prevCmd,       \* the directive entered on the line before it, else empty
    calls,         \* actions invoked for the current line / single command
    returned,      \* the sequence the last "full data" getter returned
    out,           \* messages printed since (and including) the last prompt
    linesRead,     \* number of lines input() has returned
    logoPrinted,   \* print_logo() has run
    prompted,      \* the prompt has been printed at least once
    event,         \* what the last step did
    raised,        \* the kind of error the last step raised, or "none"
    exitCode       \* process exit status; -1 while the process runs

vars == << pc, args, OsintgramCallable, handlerInstalled, apiBuilt, writeFile,
           jsonDump, line, cmd, prevCmd, calls, returned, out,
           linesRead,
           logoPrinted, prompted, event, raised, exitCode >>

----------------------------------------------------------------------------
(* Bounds of the model *)

MaxLines == 2      \* lines read in one session
MaxData == 2       \* length of a sequence returned by a "full data" getter

----------------------------------------------------------------------------
(* The command registry, main.py lines 106-134 *)

commandTable == <<
    << <<"l", "i", "s", "t">>, "print_commands" >>,
    << <<"h", "e", "l", "p">>, "print_commands" >>,
    << <<"q", "u", "i", "t">>, "sys.exit" >>,
    << <<"e", "x", "i", "t">>, "sys.exit" >>,
    << <<"a", "d", "d", "r", "s">>, "api.get_addrs" >>,
    << <<"c", "a", "c", "h", "e">>, "api.clear_cache" >>,
    << <<"c", "a", "p", "t", "i", "o", "n", "s">>, "api.get_captions" >>,
    << <<"c", "o", "m", "m", "e", "n", "t", "d", "a", "t", "a">>, "api.get_comment_data" >>,
    << <<"c", "o", "m", "m", "e", "n", "t", "s">>, "api.get_total_comments" >>,
    << <<"f", "o", "l", "l", "o", "w", "e", "r", "s">>, "api.get_followers" >>,
    << <<"f", "o", "l", "l", "o", "w", "i", "n", "g", "s">>, "api.get_followings" >>,
    << <<"f", "w", "e", "r", "s", "e", "m", "a", "i", "l">>, "lambda:fwersemail" >>,
    << <<"f", "w", "i", "n", "g", "s", "e", "m", "a", "i", "l">>, "lambda:fwingsemail" >>,
    << <<"f", "w", "e", "r", "s", "n", "u", "m", "b", "e", "r">>, "lambda:fwersnumber" >>,
    << <<"f", "w", "i", "n", "g", "s", "n", "u", "m", "b", "e", "r">>, "lambda:fwingsnumber" >>,
    << <<"h", "a", "s", "h", "t", "a", "g", "s">>, "api.get_hashtags" >>,
    << <<"i", "n", "f", "o">>, "api.get_user_info" >>,
    << <<"l", "i", "k", "e", "s">>, "api.get_total_likes" >>,
    << <<"m", "e", "d", "i", "a", "t", "y", "p", "e">>, "api.get_media_type" >>,
    << <<"p", "h", "o", "t", "o", "d", "e", "s">>, "api.get_photo_description" >>,
    << <<"p", "h", "o", "t", "o", "s">>, "api.get_user_photo" >>,
    << <<"p", "r", "o", "p", "i", "c">>, "api.get_user_propic" >>,
    << <<"s", "t", "o", "r", "i", "e", "s">>, "api.get_user_stories" >>,
    << <<"t", "a", "g", "g", "e", "d">>, "api.get_people_tagged_by_user" >>,
    << <<"t", "a", "r", "g", "e", "t">>, "api.change_target" >>,
    << <<"w", "c", "o", "m", "m", "e", "n", "t", "e", "d">>, "api.get_people_who_commented" >>,
    << <<"w", "t", "a", "g", "g", "e", "d">>, "api.get_people_who_tagged" >> >>

\* The keys of the dict.
CommandNames == { commandTable[i][1] : i \in DOMAIN commandTable }

\* The dict itself: name -> zero-argument action.
commands ==
    [ n \in CommandNames |->
        (CHOOSE i \in DOMAIN commandTable : commandTable[i][1] = n) ]

\* commands[n], as the name of the callable stored under n.
ActionOf(n) == commandTable[commands[n]][2]

\* The four lambdas of lines 118-121 and the title each passes to
\* print_full_data.
FullDataTitle ==
    ( "lambda:fwersemail"   :> "Follower Emails" ) @@
    ( "lambda:fwingsemail"  :> "Following Emails" ) @@
    ( "lambda:fwersnumber"  :> "Follower Phone Numbers" ) @@
    ( "lambda:fwingsnumber" :> "Following Phone Numbers" )

\* The four literal directives of lines 154-161.
FILE_y == <<"F", "I", "L", "E", "=", "y">>
FILE_n == <<"F", "I", "L", "E", "=", "n">>
JSON_y == <<"J", "S", "O", "N", "=", "y">>
JSON_n == <<"J", "S", "O", "N", "=", "n">>

Directives == { FILE_y, FILE_n, JSON_y, JSON_n }

----------------------------------------------------------------------------
(* Python string operations used by main() *)

\* Characters str.strip() removes (the ASCII whitespace that can occur in a
\* line returned by input()).
Whitespace == { " ", "\t", "\r", "\f" }

\* Characters for which str.isalnum() is true (ASCII letters and digits).
AlnumChars ==
    { "a","b","c","d","e","f","g","h","i","j","k","l","m","n","o","p","q",
      "r","s","t","u","v","w","x","y","z",
      "A","B","C","D","E","F","G","H","I","J","K","L","M","N","O","P","Q",
      "R","S","T","U","V","W","X","Y","Z",
      "0","1","2","3","4","5","6","7","8","9" }

RECURSIVE lstrip(_)
lstrip(s) ==
    IF s # << >> /\ Head(s) \in Whitespace THEN lstrip(Tail(s)) ELSE s

RECURSIVE rstrip(_)
rstrip(s) ==
    IF s # << >> /\ s[Len(s)] \in Whitespace
    THEN rstrip(SubSeq(s, 1, Len(s) - 1))
    ELSE s

\* A plausible slip: only leading whitespace is removed.
strip_leading_only(s) == lstrip(s)

\* str.strip(): leading and trailing whitespace removed.
strip(s) == rstrip(lstrip(s))

\* str.isalnum(): non-empty and every character alphanumeric.
isalnum(s) == s # << >> /\ \A i \in 1..Len(s) : s[i] \in AlnumChars

----------------------------------------------------------------------------
(* Output and errors *)

\* One call of pc.printout / print: what was printed, and the text it
\* carries (a sequence of strings, empty when the message is fixed).
Msg(kind, arg) == [ kind |-> kind, arg |-> arg ]

\* Kinds of error a callable can raise, by their place in Python's class
\* hierarchy: "Exception" stands for Exception and its subclasses (EOFError,
\* TypeError, ...); SystemExit and KeyboardInterrupt derive from
\* BaseException and not from Exception.
ErrorKinds == { "Exception", "SystemExit", "KeyboardInterrupt" }

\* A plausible slip: a bare "except:" that catches everything.
Caught_all(kind) == TRUE

\* A plausible slip: no handler around the dispatch.
Caught_none(kind) == FALSE

\* "except Exception as e" of line 164: which errors the loop's handler
\* catches.
Caught(kind) == kind = "Exception"

\* A plausible slip: the handler prints but does not call sys.exit.
signal_handler_no_exit(o) ==
    [ out |-> o \o << Msg("farewell", << >>) >>, raise |-> "none", code |-> 0 ]

\* signal_handler, lines 67-70: prints the farewell, then sys.exit(0)
\* raises SystemExit with code 0 in the interrupted frame.
signal_handler(o) ==
    [ out |-> o \o << Msg("farewell", << >>) >>, raise |-> "SystemExit", code |-> 0 ]

\* Process status when an error leaves main() unhandled: the code carried
\* by SystemExit, otherwise the interpreter's non-zero status.
ExitStatus(err, code) == IF err = "SystemExit" THEN code ELSE 1

----------------------------------------------------------------------------
(* print_full_data, lines 168-175 *)

\* A plausible slip: the items are emitted last to first.
print_full_data_reversed(data, title) ==
    << Msg("header", << title >>) >> \o
    ( IF data = << >>
      THEN << Msg("nodata", << >>) >>
      ELSE [ i \in 1..Len(data) |-> Msg("bullet", << data[Len(data) + 1 - i] >>) ] )

\* The sequence of messages print_full_data(data, title) prints.
print_full_data(data, title) ==
    << Msg("header", << title >>) >> \o
    ( IF data = << >>
      THEN << Msg("nodata", << >>) >>
      ELSE [ i \in 1..Len(data) |-> Msg("bullet", << data[i] >>) ] )

----------------------------------------------------------------------------
(* The if/elif chain of the loop body, lines 150-163 *)

\* A plausible slip: the "if not cmd: continue" test is missing.
Classify_no_empty_test(c) ==
    IF c \in CommandNames THEN "command"
    ELSE IF c = FILE_y THEN "set_write_file(True)"
    ELSE IF c = FILE_n THEN "set_write_file(False)"
    ELSE IF c = JSON_y THEN "set_json_dump(True)"
    ELSE IF c = JSON_n THEN "set_json_dump(False)"
    ELSE "unknown"

\* A plausible slip: the final else branch is missing.
Classify_no_else(c) ==
    IF c = << >> THEN "continue"
    ELSE IF c \in CommandNames THEN "command"
    ELSE IF c = FILE_y THEN "set_write_file(True)"
    ELSE IF c = FILE_n THEN "set_write_file(False)"
    ELSE IF c = JSON_y THEN "set_json_dump(True)"
    ELSE IF c = JSON_n THEN "set_json_dump(False)"
    ELSE "continue"

\* A plausible slip: FILE=n passes True.
Classify_file_n_true(c) ==
    IF c = << >> THEN "continue"
    ELSE IF c \in CommandNames THEN "command"
    ELSE IF c = FILE_y THEN "set_write_file(True)"
    ELSE IF c = FILE_n THEN "set_write_file(True)"
    ELSE IF c = JSON_y THEN "set_json_dump(True)"
    ELSE IF c = JSON_n THEN "set_json_dump(False)"
    ELSE "unknown"

\* The branch taken for the stripped text c.
Classify(c) ==
    IF c = << >> THEN "continue"
    ELSE IF c \in CommandNames THEN "command"
    ELSE IF c = FILE_y THEN "set_write_file(True)"
    ELSE IF c = FILE_n THEN "set_write_file(False)"
    ELSE IF c = JSON_y THEN "set_json_dump(True)"
    ELSE IF c = JSON_n THEN "set_json_dump(False)"
    ELSE "unknown"

\* Collaborator setters: each stores its argument in its own flag.
set_write_file(flags, v) == [ flags EXCEPT !.writeFile = v ]
set_json_dump(flags, v) == [ flags EXCEPT !.jsonDump = v ]

\* The flags after the branch b has run.
ApplyBranch(b, flags) ==
    CASE b = "set_write_file(True)"  -> set_write_file(flags, TRUE)
      [] b = "set_write_file(False)" -> set_write_file(flags, FALSE)
      [] b = "set_json_dump(True)"   -> set_json_dump(flags, TRUE)
      [] b = "set_json_dump(False)"  -> set_json_dump(flags, FALSE)
      [] OTHER -> flags

----------------------------------------------------------------------------
(* Inputs *)

\* Target identifiers given on the command line.
Ids == { <<"a","b","c","1","2","3">>,
         <<"a","b","c","-","1","2","3">>,
         <<"a","b","c"," ","1","2","3">>,
         <<"a","_","b">>,
         << >> }

\* Values of the -c option (when given).
CommandArgs == { <<"l","i","s","t">>, <<"q","u","i","t">>, <<"i","n","f","o">>,
                 <<"f","w","e","r","s","e","m","a","i","l">>,
                 <<" ","l","i","s","t">>, <<"b","o","g","u","s">>, FILE_y, << >> }

\* The namespaces parse_args() can return; command is None when -c is absent.
ArgsSpace ==
    { a \in [ id : Ids, file : BOOLEAN, json : BOOLEAN,
              commandGiven : BOOLEAN, command : CommandArgs ] :
        ~a.commandGiven => a.command = << >> }

NoArgs == [ id |-> << >>, file |-> FALSE, json |-> FALSE,
            commandGiven |-> FALSE, command |-> << >> ]

\* Lines typed at the prompt: every registered name, some with surrounding
\* whitespace, the directives, blank lines, and unregistered text.
Pad(l, s, r) == l \o s \o r

Lines ==
    CommandNames
    \cup { Pad(<<" ">>, <<"l","i","s","t">>, <<" ", "\t">>),
           Pad(<< >>, <<"q","u","i","t">>, <<" ">>),
           Pad(<<"\t">>, <<"f","w","e","r","s","e","m","a","i","l">>, << >>),
           Pad(<<" ">>, <<"i","n","f","o">>, << >>) }
    \cup { FILE_y, FILE_n, JSON_y, JSON_n,
           Pad(<<" ">>, FILE_y, << >>), Pad(<< >>, JSON_n, <<"\t">>) }
    \cup { << >>, <<" ">>, <<"\t", " ">> }
    \cup { <<"b","o","g","u","s">>, <<"L","I","S","T">>, <<"l","i"," ","s","t">>,
           <<"l","i","s">>, <<"f","i","l","e","=","y">>,
           <<"F","I","L","E","=","Y">>, <<"F","I","L","E"," ","=","y">> }

\* Items a "full data" getter can return, and the sequences of them.
Items == { "a@x", "b@x" }
DataSeqs == UNION { [ 1..n -> Items ] : n \in 0..MaxData }

\* What calling the action a can do: return (with the sequence a getter
\* returns) or raise an error of some kind. print_commands only prints;
\* sys.exit() raises SystemExit with code 0; a collaborator method may
\* return or raise anything.
Outcomes(a) ==
    LET ret(d) == [ kind |-> "return", data |-> d, err |-> "none", code |-> 0 ]
        exc(e, c) == [ kind |-> "raise", data |-> << >>, err |-> e, code |-> c ]
        raises == { exc("Exception", 0), exc("SystemExit", 2),
                    exc("KeyboardInterrupt", 0) }
    IN  IF a = "print_commands" THEN { ret(<< >>) }
        ELSE IF a = "sys.exit" THEN { exc("SystemExit", 0) }
        ELSE IF a \in DOMAIN FullDataTitle
             THEN { ret(d) : d \in DataSeqs } \cup raises
        ELSE { ret(<< >>) } \cup raises

\* What the action a prints when it returns with o.
Printed(a, o) ==
    IF a = "print_commands" THEN << Msg("commands", << >>) >>
    ELSE IF a \in DOMAIN FullDataTitle THEN print_full_data(o.data, FullDataTitle[a])
    ELSE << >>

----------------------------------------------------------------------------
(* The state machine *)

Init ==
    /\ pc = "start"
    /\ args = NoArgs
    /\ OsintgramCallable \in BOOLEAN
    /\ handlerInstalled = FALSE
    /\ apiBuilt = FALSE
    /\ writeFile = FALSE
    /\ jsonDump = FALSE
    /\ line = << >>
    /\ cmd = << >>
    /\ prevCmd = << >>
    /\ calls = << >>
    /\ returned = << >>
    /\ out = << >>
    /\ linesRead = 0
    /\ logoPrinted = FALSE
    /\ prompted = FALSE
    /\ event = "start"
    /\ raised = "none"
    /\ exitCode = -1

\* The process ends with the given status.
Terminate(status) == pc' = "done" /\ exitCode' = status

\* Line 85: signal.signal(signal.SIGINT, signal_handler).
InstallHandler ==
    /\ pc = "start"
    /\ pc' = "parse"
    /\ handlerInstalled' = TRUE
    /\ event' = "install"
    /\ UNCHANGED << args, OsintgramCallable, apiBuilt, writeFile, jsonDump, line,
                    cmd, prevCmd, calls, out, linesRead, logoPrinted, prompted,
                    raised, exitCode, returned >>

\* Lines 87-95: the parser is built and parse_args() returns the namespace.
ParseArgs ==
    /\ pc = "parse"
    /\ \E a \in ArgsSpace : args' = a
    /\ pc' = "validate"
    /\ event' = "parse"
    /\ UNCHANGED << OsintgramCallable, handlerInstalled, apiBuilt, writeFile,
                    jsonDump, line, cmd, prevCmd, calls, out, linesRead,
                    logoPrinted, prompted, raised, exitCode, returned >>

\* Lines 98-100: the identifier check.
Validate ==
    /\ pc = "validate"
    /\ IF ~isalnum(args.id)
       THEN /\ out' = out \o << Msg("invalid_id", << >>) >>
            /\ raised' = "SystemExit"
            /\ event' = "invalid_id"
            /\ Terminate(1)
       ELSE /\ pc' = "construct"
            /\ event' = "valid_id"
            /\ UNCHANGED << out, raised, exitCode >>
    /\ UNCHANGED << args, OsintgramCallable, handlerInstalled, apiBuilt, writeFile,
                    jsonDump, line, cmd, prevCmd, calls, linesRead, logoPrinted,
                    prompted, returned >>

\* Lines 15 and 103-134: "import Osintgram" binds the name to a module and
\* line 103 calls it. Calling a module object raises TypeError, outside any
\* handler; only if the imported object is callable is the collaborator
\* built (holding the file and json options) and the registry created.
Construct ==
    /\ pc = "construct"
    /\ IF OsintgramCallable
       THEN /\ apiBuilt' = TRUE
            /\ writeFile' = args.file
            /\ jsonDump' = args.json
            /\ pc' = "dispatch"
            /\ event' = "constructed"
            /\ UNCHANGED << raised, exitCode >>
       ELSE /\ raised' = "Exception"
            /\ event' = "construct_failed"
            /\ Terminate(ExitStatus("Exception", 0))
            /\ UNCHANGED << apiBuilt, writeFile, jsonDump >>
    /\ UNCHANGED << args, OsintgramCallable, handlerInstalled, line, cmd, prevCmd,
                    calls, out, linesRead, logoPrinted, prompted, returned >>

\* "if args.command:" of line 136: None and the empty string are falsy.
CommandSupplied(a) == a.commandGiven /\ a.command # << >>

\* Lines 136-142, first half: the single command is looked up; a registered
\* one is invoked, an unregistered one is reported and main() returns.
DispatchOnce ==
    /\ pc = "dispatch"
    /\ CommandSupplied(args)
    /\ IF args.command \in CommandNames
       THEN /\ calls' = << ActionOf(args.command) >>
            /\ pc' = "running_once"
            /\ event' = "invoke"
            /\ UNCHANGED << out, exitCode >>
       ELSE /\ out' = out \o << Msg("unknown", args.command) >>
            /\ event' = "unknown"
            /\ Terminate(0)
            /\ UNCHANGED calls
    /\ UNCHANGED << args, OsintgramCallable, handlerInstalled, apiBuilt, writeFile,
                    jsonDump, line, cmd, prevCmd, linesRead, logoPrinted, prompted,
                    raised, returned >>

\* Lines 139 and 142: the single command finishes; main() returns, or the
\* error it raised leaves main() unhandled.
FinishOnce ==
    /\ pc = "running_once"
    /\ \E o \in Outcomes(calls[1]) :
         IF o.kind = "return"
         THEN /\ out' = out \o Printed(calls[1], o)
              /\ returned' = o.data
              /\ raised' = "none"
              /\ event' = "returned"
              /\ Terminate(0)
         ELSE /\ raised' = o.err
              /\ event' = "raised"
              /\ Terminate(ExitStatus(o.err, o.code))
              /\ UNCHANGED << out, returned >>
    /\ UNCHANGED << args, OsintgramCallable, handlerInstalled, apiBuilt, writeFile,
                    jsonDump, line, cmd, prevCmd, calls, linesRead, logoPrinted,
                    prompted >>

\* Line 144: no command was supplied, the logo is printed and the loop begins.
PrintLogo ==
    /\ pc = "dispatch"
    /\ ~CommandSupplied(args)
    /\ logoPrinted' = TRUE
    /\ out' = out \o << Msg("logo", << >>) >>
    /\ pc' = "prompt"
    /\ event' = "logo"
    /\ UNCHANGED << args, OsintgramCallable, handlerInstalled, apiBuilt, writeFile,
                    jsonDump, line, cmd, prevCmd, calls, linesRead, prompted,
                    raised, exitCode, returned >>

\* Lines 148-163: the prompt is printed, a line is read and stripped, and
\* the branch for it runs. A registered command is invoked here and
\* finishes in FinishCommand.
ReadLine(l) ==
    /\ pc = "prompt"
    /\ linesRead < MaxLines
    /\ LET c == strip(l)
           b == Classify(c)
           flags == ApplyBranch(b, [ writeFile |-> writeFile, jsonDump |-> jsonDump ])
       IN  /\ line' = l
           /\ cmd' = c
           /\ prevCmd' = IF cmd \in Directives THEN cmd ELSE << >>
           /\ returned' = << >>
           /\ linesRead' = linesRead + 1
           /\ prompted' = TRUE
           /\ writeFile' = flags.writeFile
           /\ jsonDump' = flags.jsonDump
           /\ raised' = "none"
           /\ CASE b = "continue" ->
                     /\ calls' = << >>
                     /\ out' = << Msg("prompt", << >>) >>
                     /\ pc' = "prompt"
                     /\ event' = "empty"
                [] b = "command" ->
                     /\ calls' = << ActionOf(c) >>
                     /\ out' = << Msg("prompt", << >>) >>
                     /\ pc' = "running"
                     /\ event' = "invoke"
                [] b = "unknown" ->
                     /\ calls' = << >>
                     /\ out' = << Msg("prompt", << >>), Msg("unknown", << >>) >>
                     /\ pc' = "prompt"
                     /\ event' = "unknown"
                [] OTHER ->
                     /\ calls' = << >>
                     /\ out' = << Msg("prompt", << >>) >>
                     /\ pc' = "prompt"
                     /\ event' = "toggle"
    /\ UNCHANGED << args, OsintgramCallable, handlerInstalled, apiBuilt,
                    logoPrinted, exitCode >>

\* Lines 149 and 164-165: input() raises EOFError at end of input; the
\* loop's handler reports it and the loop goes on.
ReadEOF ==
    /\ pc = "prompt"
    /\ prompted' = TRUE
    /\ calls' = << >>
    /\ returned' = << >>
    /\ raised' = "Exception"
    /\ event' = "eof"
    /\ IF Caught("Exception")
       THEN /\ out' = << Msg("prompt", << >>), Msg("error", << "Exception" >>) >>
            /\ pc' = "prompt"
            /\ UNCHANGED exitCode
       ELSE /\ out' = << Msg("prompt", << >>) >>
            /\ Terminate(ExitStatus("Exception", 0))
    /\ UNCHANGED << args, OsintgramCallable, handlerInstalled, apiBuilt, writeFile,
                    jsonDump, line, cmd, prevCmd, linesRead, logoPrinted >>

\* Lines 153 and 164-165: the invoked command returns, or raises; an error
\* the handler catches is reported and the loop goes on, any other error
\* leaves main().
FinishCommand ==
    /\ pc = "running"
    /\ \E o \in Outcomes(calls[1]) :
         IF o.kind = "return"
         THEN /\ out' = out \o Printed(calls[1], o)
              /\ returned' = o.data
              /\ raised' = "none"
              /\ event' = "returned"
              /\ pc' = "prompt"
              /\ UNCHANGED exitCode
         ELSE /\ raised' = o.err
              /\ event' = "raised"
              /\ UNCHANGED returned
              /\ IF Caught(o.err)
                 THEN /\ out' = out \o << Msg("error", << o.err >>) >>
                      /\ pc' = "prompt"
                      /\ UNCHANGED exitCode
                 ELSE /\ Terminate(ExitStatus(o.err, o.code))
                      /\ UNCHANGED out
    /\ UNCHANGED << args, OsintgramCallable, handlerInstalled, apiBuilt, writeFile,
                    jsonDump, line, cmd, prevCmd, calls, linesRead, logoPrinted,
                    prompted >>

\* The loop's try block (lines 147-163) is active at the prompt and while a
\* command of the loop runs.
InTry == pc \in { "prompt", "running" }

\* SIGINT is delivered while the handler is installed: signal_handler runs
\* in the interrupted frame, and what it raises propagates from there.
Interrupt ==
    /\ handlerInstalled
    /\ pc # "done"
    /\ LET h == signal_handler(out)
       IN  /\ event' = "sigint"
           /\ raised' = h.raise
           /\ IF h.raise = "none"
              THEN /\ out' = h.out
                   /\ UNCHANGED << pc, exitCode >>
              ELSE IF InTry /\ Caught(h.raise)
              THEN /\ out' = h.out \o << Msg("error", << h.raise >>) >>
                   /\ pc' = "prompt"
                   /\ UNCHANGED exitCode
              ELSE /\ out' = h.out
                   /\ Terminate(ExitStatus(h.raise, h.code))
    /\ UNCHANGED << args, OsintgramCallable, handlerInstalled, apiBuilt, writeFile,
                    jsonDump, line, cmd, prevCmd, calls, linesRead, logoPrinted,
                    prompted, returned >>

Next ==
    \/ InstallHandler
    \/ ParseArgs
    \/ Validate
    \/ Construct
    \/ DispatchOnce
    \/ FinishOnce
    \/ PrintLogo
    \/ \E l \in Lines : ReadLine(l)
    \/ ReadEOF
    \/ FinishCommand
    \/ Interrupt

Spec == Init /\ [][Next]_vars

----------------------------------------------------------------------------
(* Type invariant *)

TypeOK ==
    /\ pc \in { "start", "parse", "validate", "construct", "dispatch",
                "running_once", "prompt", "running", "done" }
    /\ args \in ArgsSpace \cup { NoArgs }
    /\ writeFile \in BOOLEAN /\ jsonDump \in BOOLEAN
    /\ linesRead \in 0..MaxLines
    /\ Len(calls) <= 1
    /\ raised \in ErrorKinds \cup { "none" }
    /\ (pc = "done") = (exitCode # -1)

----------------------------------------------------------------------------
(* Vocabulary of the properties *)

\* The line l is the text n with whitespace (only) before and after it.
Trims(l, n) ==
    \E i \in 0..Len(l) :
        /\ i + Len(n) <= Len(l)
        /\ \A k \in 1..i : l[k] \in Whitespace
        /\ \A k \in (i + Len(n) + 1)..Len(l) : l[k] \in Whitespace
        /\ SubSeq(l, i + 1, i + Len(n)) = n

\* The line l is empty or consists of whitespace only.
Blank(l) == \A k \in 1..Len(l) : l[k] \in Whitespace

\* This step is the loop reading one line.
LineRead == pc = "prompt" /\ linesRead' = linesRead + 1

\* The last message printed.
LastOut == IF out = << >> THEN Msg("none", << >>) ELSE out[Len(out)]

----------------------------------------------------------------------------
(* C1: in the loop, a line whose trimmed text is a registered name invokes *)
(* the action registered under that name, once, and nothing else: no       *)
(* toggle is applied, and no line ever has more than one action invoked.   *)
C1_ExactDispatch ==
    [][ /\ LineRead =>
            /\ \A n \in CommandNames :
                 Trims(line', n) =>
                    /\ calls' = << ActionOf(n) >>
                    /\ pc' = "running"
                    /\ writeFile' = writeFile /\ jsonDump' = jsonDump
            /\ Len(calls') <= 1
        /\ pc = "running" => calls' = calls
      ]_vars

C1_Witness ==
    /\ pc = "running"
    /\ line = << " ", "l", "i", "s", "t", " ", "\t" >>
    /\ calls = << "print_commands" >>

(* C2 as stated: whatever error a resolved collaborator command raises in  *)
(* the loop, it is caught, reported as an error message, and the loop      *)
(* returns to the prompt.                                                  *)
C2_AnyErrorCaught ==
    [][ (pc = "running" /\ calls[1] # "sys.exit" /\ event' = "raised") =>
            /\ pc' = "prompt"
            /\ exitCode' = -1
            /\ LastOut' = Msg("error", << raised' >>)
      ]_vars

(* C2 amended: an error that is an Exception is caught, reported as an     *)
(* error message, and the loop returns to the prompt; an error outside the *)
(* Exception hierarchy (SystemExit, KeyboardInterrupt) is not caught and   *)
(* ends the process.                                                       *)
C2_ExceptionCaught ==
    [][ (pc = "running" /\ event' = "raised") =>
            IF raised' = "Exception"
            THEN /\ pc' = "prompt"
                 /\ exitCode' = -1
                 /\ LastOut' = Msg("error", << raised' >>)
                 /\ linesRead' = linesRead
            ELSE pc' = "done"
      ]_vars

C2_Witness ==
    /\ event = "raised"
    /\ raised = "Exception"
    /\ calls = << "api.get_user_info" >>
    /\ pc = "prompt"
    /\ LastOut = Msg("error", << "Exception" >>)

\* The command that just raised is quit or exit.
QuitRan == event = "raised" /\ calls = << "sys.exit" >>

(* C3 as stated: a running session ends exactly when quit or exit is       *)
(* entered or the interrupt arrives; quit/exit ends the process with no    *)
(* further line read or command run; nothing else ends the session.        *)
C3_EndsOnlyOnQuitOrInterrupt ==
    [][ /\ InTry => ( (pc' = "done") <=> (QuitRan' \/ event' = "sigint") )
        /\ (pc = "running" /\ calls = << "sys.exit" >>) => pc' = "done"
        /\ pc = "done" => (linesRead' = linesRead /\ calls' = calls)
      ]_vars

(* C3 amended: a running session ends exactly when quit or exit is         *)
(* entered, the interrupt arrives, or a command raises an error outside    *)
(* the Exception hierarchy; quit/exit ends the process with no further     *)
(* line read or command run; an unknown line, an empty line, a directive,  *)
(* a command failing with an Exception and end of input do not end it.     *)
C3_EndsOnlyOnExit ==
    [][ /\ InTry => ( (pc' = "done") <=>
                        \/ QuitRan'
                        \/ event' = "sigint"
                        \/ (event' = "raised" /\ raised' # "Exception") )
        /\ (pc = "running" /\ calls = << "sys.exit" >>) => pc' = "done"
        /\ pc = "done" => (linesRead' = linesRead /\ calls' = calls)
        /\ (InTry /\ event' \in { "unknown", "empty", "toggle", "eof" }) =>
              pc' = "prompt"
      ]_vars

C3_Witness ==
    /\ pc = "done"
    /\ QuitRan
    /\ line = << "q", "u", "i", "t", " " >>
    /\ exitCode = 0

(* C4: the interrupt, delivered at any point after the handler is          *)
(* installed, prints the farewell and ends the process with status 0 by    *)
(* SystemExit; the loop's handler does not absorb it, and afterwards no    *)
(* line is read and no command is run.                                     *)
C4_InterruptExits ==
    [][ /\ event' = "sigint" =>
            /\ pc' = "done"
            /\ exitCode' = 0
            /\ raised' = "SystemExit"
            /\ LastOut' = Msg("farewell", << >>)
            /\ linesRead' = linesRead /\ calls' = calls
        /\ event = "sigint" => (linesRead' = linesRead /\ calls' = calls)
      ]_vars

\* The interrupt arrived while a command of the loop was executing.
C4_Witness ==
    /\ event = "sigint"
    /\ pc = "done"
    /\ calls = << "api.get_followers" >>
    /\ linesRead = 1
    /\ LastOut = Msg("farewell", << >>)

(* C5: when a command is supplied with the command option (and the         *)
(* identifier is valid and no interrupt arrives), the process ends having  *)
(* invoked the registered action exactly once, or having printed the       *)
(* unknown-command message and invoked nothing, and never having printed   *)
(* the logo, prompted or read a line.                                      *)
C5_SingleCommand ==
    (pc = "done" /\ args.commandGiven /\ isalnum(args.id) /\ event # "sigint") =>
        /\ ~logoPrinted /\ ~prompted /\ linesRead = 0
        /\ IF args.command \in CommandNames
           THEN calls = << ActionOf(args.command) >>
           ELSE calls = << >> /\ LastOut = Msg("unknown", args.command)

(* C6: a non-alphanumeric identifier ends the process with status 1 and an *)
(* error message before the collaborator is built, any command runs or any *)
(* line is read; an alphanumeric identifier gets past startup, that is,    *)
(* the collaborator is built and the session or single command proceeds.   *)
C6_StartupValidation ==
    (pc \notin { "start", "parse", "validate" } /\ event # "sigint") =>
        IF isalnum(args.id)
        THEN pc # "construct" => (apiBuilt /\ event # "construct_failed")
        ELSE /\ pc = "done" /\ exitCode = 1
             /\ LastOut = Msg("invalid_id", << >>)
             /\ ~apiBuilt /\ calls = << >> /\ linesRead = 0 /\ ~logoPrinted

\* The line l is neither blank, nor a registered name, nor a directive.
UnknownText(l) ==
    /\ ~Blank(l)
    /\ \A n \in CommandNames \cup Directives : ~Trims(l, n)

(* C7: in the loop, a non-empty trimmed text that is neither a registered  *)
(* name nor one of the four directives prints the unknown-command message, *)
(* invokes nothing, leaves both flags alone, raises nothing and returns to *)
(* the prompt.                                                             *)
C7_UnknownCommand ==
    [][ (LineRead /\ UnknownText(line')) =>
            /\ out' = << Msg("prompt", << >>), Msg("unknown", << >>) >>
            /\ calls' = << >>
            /\ writeFile' = writeFile /\ jsonDump' = jsonDump
            /\ raised' = "none"
            /\ pc' = "prompt" /\ exitCode' = -1
      ]_vars

C7_Witness ==
    /\ event = "unknown"
    /\ line = << "F", "I", "L", "E", "=", "Y" >>
    /\ pc = "prompt"
    /\ LastOut = Msg("unknown", << >>)

(* C8: a directive sets its flag to the value it names: after FILE=y the   *)
(* file flag is true and after FILE=n false, whatever it was, so FILE=y    *)
(* then FILE=n leaves it false, FILE=n then FILE=y leaves it true, and a   *)
(* directive repeated leaves the state it left the first time; likewise    *)
(* JSON=y / JSON=n on the JSON flag; a FILE directive leaves the JSON flag *)
(* alone and a JSON directive the file flag.                               *)
C8_TogglesSetByValue ==
    [][ LineRead =>
          /\ Trims(line', FILE_y) => (writeFile' /\ jsonDump' = jsonDump)
          /\ Trims(line', FILE_n) => (~writeFile' /\ jsonDump' = jsonDump)
          /\ Trims(line', JSON_y) => (jsonDump' /\ writeFile' = writeFile)
          /\ Trims(line', JSON_n) => (~jsonDump' /\ writeFile' = writeFile)
          /\ (event = "toggle" /\ cmd = FILE_y /\ Trims(line', FILE_n)) => ~writeFile'
          /\ (event = "toggle" /\ cmd = FILE_n /\ Trims(line', FILE_y)) => writeFile'
          /\ (event = "toggle" /\ cmd = JSON_y /\ Trims(line', JSON_n)) => ~jsonDump'
          /\ (event = "toggle" /\ cmd = JSON_n /\ Trims(line', JSON_y)) => jsonDump'
          /\ (event = "toggle" /\ Trims(line', cmd)) =>
                (writeFile' = writeFile /\ jsonDump' = jsonDump)
      ]_vars

\* FILE=y was entered, then FILE=n, in a session started with -f.
C8_Witness ==
    /\ event = "toggle"
    /\ prevCmd = FILE_y
    /\ cmd = FILE_n
    /\ args.file
    /\ ~writeFile

\* What the last command printed (the prompt of the loop not included).
PrintedByCommand == IF prompted THEN Tail(out) ELSE out

(* C9: print_full_data prints the titled header first; for an empty        *)
(* sequence exactly one no-data notice follows and no bullet; for N items  *)
(* exactly N bullets follow, the i-th carrying the i-th item, and no       *)
(* no-data notice.                                                         *)
C9_PrintFullData ==
    (event = "returned" /\ calls # << >> /\ calls[1] \in DOMAIN FullDataTitle) =>
        LET p == PrintedByCommand
            n == Len(returned)
        IN  /\ Len(p) >= 1
            /\ p[1] = Msg("header", << FullDataTitle[calls[1]] >>)
            /\ IF n = 0
               THEN Len(p) = 2 /\ p[2].kind = "nodata"
               ELSE /\ Len(p) = n + 1
                    /\ \A i \in 1..n : p[i + 1] = Msg("bullet", << returned[i] >>)

\* Two different items were printed, in the order returned.
C9_Witness ==
    /\ event = "returned"
    /\ calls = << "lambda:fwersemail" >>
    /\ returned = << "a@x", "b@x" >>
    /\ Len(out) = 4

(* C10: in the loop, an empty or whitespace-only line invokes nothing,     *)
(* changes neither flag, prints no unknown-command or error message, and   *)
(* the loop is back at the prompt.                                         *)
C10_BlankLine ==
    [][ (LineRead /\ Blank(line')) =>
            /\ calls' = << >>
            /\ writeFile' = writeFile /\ jsonDump' = jsonDump
            /\ out' = << Msg("prompt", << >>) >>
            /\ raised' = "none"
            /\ pc' = "prompt" /\ exitCode' = -1
      ]_vars

C10_Witness ==
    /\ event = "empty"
    /\ line = << "\t", " " >>
    /\ pc = "prompt"
    /\ out = << Msg("prompt", << >>) >>

====
